---- MODULE Spec2Model ----
(***************************************************************************)
(* A model of the ChangeDetection.io Home Assistant integration            *)
(* (custom_components/changedetection): the REST client (api.py), the      *)
(* polling update method, the entry setup and the service handlers         *)
(* (__init__.py) and the recheck button (button.py).                       *)
(*                                                                         *)
(* The remote server and the HTTP transport are the environment: every     *)
(* exchange nondeterministically ends in a response with some status, in   *)
(* an aiohttp.ClientError or in the expiry of the 30 s timeout.  The host  *)
(* framework's DataUpdateCoordinator is not part of the repository; it is  *)
(* modelled from the specification's section 4.2 and 5.                    *)
(***************************************************************************)
EXTENDS Integers, Sequences, FiniteSets, TLC

VARIABLES
    rq,          \* one client request under test (SpecRequest)
    server,      \* the remote service: watches, tags, notifications, version
    entry,       \* the config entry: setup state, hass.data, entities, services
    hass,        \* the host's containers: hass.data[DOMAIN], the service registry
    coord,       \* the coordinator: data (snapshot), fetch in flight, locals
    calls,       \* the service calls / button presses in progress
    hist         \* history: counters that bound the model

vars == <<rq, server, entry, hass, coord, calls, hist>>

----------------------------------------------------------------------------
(* Bounds of the model *)

\* fetches the coordinator may start (the first refresh of a setup included)
MaxPolls == 2
\* service calls that may be started while the coordinator polls
MaxCalls == 2

\* const.py
DEFAULT_SCAN_INTERVAL == 60

UUIDs == {"u1", "u2"}
TagUUIDs == {"t1"}
WatchURLs == {"https://example.com"}
NotificationURLs == {"mailto:a"}
\* HTTP statuses the server may answer with (1xx are never final; aiohttp
\* follows 301/302 itself, 304 is handed to the caller as it is)
Statuses == {200, 204, 304, 404, 500}

NoParams == [k \in {} |-> ""]
NoJson == [k \in {} |-> ""]

----------------------------------------------------------------------------
(* api.py: the transport's outcomes and changedetectionClient._request *)

\* What one HTTP exchange can end in.  json: the response declares
\* Content-Type application/json.
Exchanges ==
    [kind : {"response"}, status : Statuses, json : BOOLEAN]
    \cup [kind : {"ClientError", "TimeoutError"}, status : {0}, json : {FALSE}]

\* The names bound in api.py's module namespace when _request runs.
ApiModuleNames ==
    {"annotations", "aiohttp", "async_timeout", "Any", "Dict", "List",
     "Optional", "changedetectionApiError", "changedetectionClient"}

Return(decoded, status) ==
    [raises |-> "none", msg |-> "", status |-> status, body |-> FALSE,
     cause |-> "none", decoded |-> decoded]

Raise(type, msg, status, body, cause) ==
    [raises |-> type, msg |-> msg, status |-> status, body |-> body,
     cause |-> cause, decoded |-> "none"]

\* The body of the try statement: the request under async_timeout.timeout(30).
RequestTry(ex) ==
    IF ex.kind = "TimeoutError"
    THEN Raise("TimeoutError", "", 0, FALSE, "none")
    ELSE IF ex.kind = "ClientError"
    THEN Raise("ClientError", "", 0, FALSE, "none")
    ELSE IF ex.status >= 400
    THEN Raise("changedetectionApiError", "API error", ex.status, TRUE, "none")
    ELSE IF ex.json THEN Return("json", ex.status)
    ELSE Return("text", ex.status)

\* The except clauses, tried in order.  The expression of a clause is
\* evaluated when the clause is tried: a name the module does not bind
\* raises NameError in place of the exception being handled.
RequestExcept(exc) ==
    IF exc.raises = "ClientError"
    THEN Raise("changedetectionApiError", "Connection error", 0, FALSE,
               "ClientError")
    ELSE IF "asyncio" \notin ApiModuleNames
    THEN Raise("NameError", "name 'asyncio' is not defined", 0, FALSE,
               exc.raises)
    ELSE IF exc.raises = "TimeoutError"
    THEN Raise("changedetectionApiError", "Timeout error", 0, FALSE,
               "TimeoutError")
    ELSE exc

_request(ex) ==
    LET r == RequestTry(ex)
    IN  IF r.raises = "none" THEN r ELSE RequestExcept(r)

\* Mutant of RequestAttempts: a failed exchange is tried once more.
RequestAttemptsRetry(ex) ==
    IF ex.kind = "response" /\ ex.status < 400 THEN 1 ELSE 2

\* The HTTP exchanges one call of _request makes: its body holds one
\* self._session.request(...) and no loop, whatever the exchange ends in.
RequestAttempts(ex) == 1

\* base_url.rstrip("/"): a base URL is an origin and its trailing slashes.
BaseURLs == [origin : {"http://cd:5000"}, slashes : 0..1]
rstrip(base) == [base EXCEPT !.slashes = 0]

\* The API keys an entry may be configured with.
ApiKeys == {"key-a", "key-b"}

\* changedetectionClient.__init__
NewClient(base_url, api_key) ==
    [base_url |-> rstrip(base_url), api_key |-> api_key]

\* Mutant of headers: the API key is left out.
headersAcceptOnly(client) == [Accept |-> "application/json"]

\* The headers property.
headers(client) ==
    [k \in {"x-api-key", "Accept"} |->
        IF k = "x-api-key" THEN client.api_key ELSE "application/json"]

\* url = f"{self._base_url}/api/v1{path}", headers updated with self.headers
Req(method, path, params, json, data, ctype) ==
    [method |-> method, path |-> <<"api", "v1">> \o path, params |-> params,
     json |-> json, data |-> data, ctype |-> ctype,
     headers |-> {"x-api-key", "Accept"} \cup
                 (IF ctype = "" THEN {} ELSE {"Content-Type"})]

\* kwargs.setdefault("headers", {}).update(self.headers): the headers the
\* operation passed (bulk_import's Content-Type), then the client's.
RequestHeaders(client, req) ==
    [k \in (IF req.ctype = "" THEN {} ELSE {"Content-Type"})
            \cup DOMAIN headers(client) |->
        IF k \in DOMAIN headers(client) THEN headers(client)[k] ELSE req.ctype]

----------------------------------------------------------------------------
(* api.py: one operation per remote resource *)

Param(cond, name, value) == IF cond THEN {<<name, value>>} ELSE {}
\* a dict literal built from the pairs that were set
Dict(pairs) ==
    [k \in {p[1] : p \in pairs} |-> (CHOOSE p \in pairs : p[1] = k)[2]]

list_watches(tag, recheck_all) ==
    Req("GET", <<"watch">>,
        Dict(Param(tag # "", "tag", tag)
             \cup Param(recheck_all, "recheck_all", "1")),
        NoJson, "", "")

create_watch(payload) == Req("POST", <<"watch">>, NoParams, payload, "", "")

\* Mutant of get_watch: the muted value is stored under the key "paused".
get_watch_MutedAsPaused(uuid, recheck, paused, muted) ==
    Req("GET", <<"watch", uuid>>,
        Dict(Param(recheck, "recheck", "true")
             \cup Param(paused \in {"paused", "unpaused"}, "paused", paused)
             \cup Param(muted \in {"muted", "unmuted"}, "paused", muted)),
        NoJson, "", "")

get_watch(uuid, recheck, paused, muted) ==
    Req("GET", <<"watch", uuid>>,
        Dict(Param(recheck, "recheck", "true")
             \cup Param(paused \in {"paused", "unpaused"}, "paused", paused)
             \cup Param(muted \in {"muted", "unmuted"}, "muted", muted)),
        NoJson, "", "")

update_watch(uuid, payload) ==
    Req("PUT", <<"watch", uuid>>, NoParams, payload, "", "")

delete_watch(uuid) == Req("DELETE", <<"watch", uuid>>, NoParams, NoJson, "", "")

watch_history(uuid) ==
    Req("GET", <<"watch", uuid, "history">>, NoParams, NoJson, "", "")

watch_snapshot(uuid, timestamp, html) ==
    Req("GET", <<"watch", uuid, "history", timestamp>>,
        Dict(Param(html, "html", "1")), NoJson, "", "")

watch_diff(uuid, from_ts, to_ts, format_, word_diff) ==
    Req("GET", <<"watch", uuid, "difference", from_ts, to_ts>>,
        [format |-> format_, word_diff |-> word_diff, no_markup |-> "false",
         type |-> "diffLines", changesOnly |-> "true",
         ignoreWhitespace |-> "false", removed |-> "true", added |-> "true",
         replaced |-> "true"],
        NoJson, "", "")

watch_favicon(uuid) ==
    Req("GET", <<"watch", uuid, "favicon">>, NoParams, NoJson, "", "")

list_tags == Req("GET", <<"tags">>, NoParams, NoJson, "", "")

create_tag(payload) == Req("POST", <<"tag">>, NoParams, payload, "", "")

get_tag(uuid, muted, recheck) ==
    Req("GET", <<"tag", uuid>>,
        Dict(Param(muted \in {"muted", "unmuted"}, "muted", muted)
             \cup Param(recheck, "recheck", "true")),
        NoJson, "", "")

update_tag(uuid, payload) ==
    Req("PUT", <<"tag", uuid>>, NoParams, payload, "", "")

delete_tag(uuid) == Req("DELETE", <<"tag", uuid>>, NoParams, NoJson, "", "")

get_notifications == Req("GET", <<"notifications">>, NoParams, NoJson, "", "")

add_notifications(urls) ==
    Req("POST", <<"notifications">>, NoParams,
        [notification_urls |-> urls], "", "")

replace_notifications(urls) ==
    Req("PUT", <<"notifications">>, NoParams,
        [notification_urls |-> urls], "", "")

delete_notifications(urls) ==
    Req("DELETE", <<"notifications">>, NoParams,
        [notification_urls |-> urls], "", "")

search(q, tag, partial) ==
    Req("GET", <<"search">>,
        Dict({<<"q", q>>} \cup Param(tag # "", "tag", tag)
             \cup Param(partial, "partial", "1")),
        NoJson, "", "")

bulk_import(body, tag_uuids, tag, proxy, dedupe) ==
    Req("POST", <<"import">>,
        Dict(Param(tag_uuids # "", "tag_uuids", tag_uuids)
             \cup Param(tag # "", "tag", tag)
             \cup Param(proxy # "", "proxy", proxy)
             \cup {<<"dedupe", IF dedupe THEN "true" ELSE "false">>}),
        NoJson, body, "text/plain")

systeminfo == Req("GET", <<"systeminfo">>, NoParams, NoJson, "", "")

\* Every client operation, on small arguments.
ClientRequests ==
    {list_watches(t, r) : t \in {"", "t1"}, r \in BOOLEAN}
    \cup {create_watch([url |-> u]) : u \in WatchURLs}
    \cup {get_watch(u, r, p, "") : u \in UUIDs, r \in BOOLEAN,
                                   p \in {"", "paused", "unpaused"}}
    \cup {get_watch(u, FALSE, "", m) : u \in UUIDs, m \in {"muted", "unmuted"}}
    \cup {update_watch(u, [title |-> "t"]) : u \in UUIDs}
    \cup {delete_watch(u) : u \in UUIDs}
    \cup {watch_history(u) : u \in UUIDs}
    \cup {watch_snapshot(u, "latest", h) : u \in UUIDs, h \in BOOLEAN}
    \cup {watch_diff(u, "previous", "latest", f, w) :
              u \in UUIDs, f \in {"text", "htmlcolor"}, w \in {"true", "false"}}
    \cup {watch_favicon(u) : u \in UUIDs}
    \cup {list_tags}
    \cup {create_tag([title |-> "t"])}
    \cup {get_tag(u, m, r) : u \in TagUUIDs, m \in {"", "muted", "unmuted"},
                             r \in BOOLEAN}
    \cup {update_tag(u, [title |-> "t"]) : u \in TagUUIDs}
    \cup {delete_tag(u) : u \in TagUUIDs}
    \cup {get_notifications}
    \cup {add_notifications(NotificationURLs),
          replace_notifications(NotificationURLs),
          delete_notifications(NotificationURLs)}
    \cup {search("q", t, p) : t \in {"", "t1"}, p \in BOOLEAN}
    \cup {bulk_import("https://example.com", "", t, "", d) :
              t \in {"", "t1"}, d \in BOOLEAN}
    \cup {systeminfo}

----------------------------------------------------------------------------
(* The remote service (environment).  It owns the watches, the tags and    *)
(* the notification URLs; ver counts the writes it has applied.            *)

None == <<>>
Some(x) == <<x>>

InitServer ==
    [watches |-> [u \in {"u1"} |-> [paused |-> FALSE, muted |-> FALSE]],
     tags |-> [t \in {} |-> [muted |-> FALSE]],
     notifications |-> {},
     ver |-> 0]

Resource(req) == req.path[3]
HasId(req) == Len(req.path) >= 4
IsWrite(req) ==
    \/ req.method \in {"POST", "PUT", "DELETE"}
    \/ /\ req.method = "GET" /\ Resource(req) \in {"watch", "tag"} /\ HasId(req)
       /\ DOMAIN req.params \cap {"paused", "muted"} # {}

\* Whether the service can answer the request with a 2xx.
ServerAccepts(srv, req) ==
    CASE Resource(req) = "watch" /\ HasId(req) -> req.path[4] \in DOMAIN srv.watches
      [] Resource(req) = "watch" /\ req.method = "POST" ->
             DOMAIN srv.watches # UUIDs
      [] Resource(req) = "tag" /\ HasId(req) -> req.path[4] \in DOMAIN srv.tags
      [] Resource(req) = "tag" /\ req.method = "POST" -> DOMAIN srv.tags # TagUUIDs
      [] OTHER -> TRUE

Without(f, x) == [y \in DOMAIN f \ {x} |-> f[y]]
With(f, x, v) == [y \in DOMAIN f \cup {x} |-> IF y = x THEN v ELSE f[y]]

SetFlags(w, req) ==
    [paused |-> IF "paused" \in DOMAIN req.params
                THEN req.params["paused"] = "paused"
                ELSE IF "paused" \in DOMAIN req.json
                THEN req.json["paused"] = "JSON true"
                ELSE w.paused,
     muted |-> IF "muted" \in DOMAIN req.params
               THEN req.params["muted"] = "muted"
               ELSE IF "notification_muted" \in DOMAIN req.json
               THEN req.json["notification_muted"] = "JSON true"
               ELSE w.muted]

\* The service's state after it applied the request; new is the UUID it
\* gives a created watch.
ServerApply(srv, req, new) ==
    LET r == Resource(req)
        bumped == [srv EXCEPT !.ver = srv.ver + 1]
    IN  IF ~IsWrite(req) THEN srv
        ELSE CASE r = "watch" /\ req.method = "POST" ->
                    [bumped EXCEPT !.watches =
                        With(srv.watches, new, [paused |-> FALSE, muted |-> FALSE])]
               [] r = "import" ->
                    [bumped EXCEPT !.watches =
                        With(srv.watches, new, [paused |-> FALSE, muted |-> FALSE])]
               [] r = "watch" /\ req.method = "DELETE" ->
                    [bumped EXCEPT !.watches = Without(srv.watches, req.path[4])]
               [] r = "watch" ->
                    [bumped EXCEPT !.watches[req.path[4]] =
                        SetFlags(srv.watches[req.path[4]], req)]
               [] r = "tag" /\ req.method = "POST" ->
                    [bumped EXCEPT !.tags =
                        With(srv.tags, CHOOSE t \in TagUUIDs : t \notin DOMAIN srv.tags,
                             [muted |-> FALSE])]
               [] r = "tag" /\ req.method = "DELETE" ->
                    [bumped EXCEPT !.tags = Without(srv.tags, req.path[4])]
               [] r = "tag" ->
                    [bumped EXCEPT !.tags[req.path[4]] =
                        [muted |-> SetFlags([paused |-> FALSE,
                                             muted |-> srv.tags[req.path[4]].muted],
                                            req).muted]]
               [] r = "notifications" /\ req.method = "POST" ->
                    [bumped EXCEPT !.notifications =
                        srv.notifications \cup req.json["notification_urls"]]
               [] r = "notifications" /\ req.method = "PUT" ->
                    [bumped EXCEPT !.notifications = req.json["notification_urls"]]
               [] r = "notifications" /\ req.method = "DELETE" ->
                    [bumped EXCEPT !.notifications =
                        srv.notifications \ req.json["notification_urls"]]
               [] OTHER -> bumped

\* The UUIDs the service may give the watch a request creates.
NewUUIDs(srv, req) ==
    IF Resource(req) \in {"watch", "import"} /\ req.method = "POST"
       /\ DOMAIN srv.watches # UUIDs
    THEN UUIDs \ DOMAIN srv.watches
    ELSE {"u1"}

\* What the service answers a read of a collection with.
ServerBody(srv, req) ==
    CASE Resource(req) = "watch" -> srv.watches
      [] Resource(req) = "tags" -> srv.tags
      [] Resource(req) = "systeminfo" ->
            [watch_count |-> Cardinality(DOMAIN srv.watches),
             tag_count |-> Cardinality(DOMAIN srv.tags)]
      [] Resource(req) = "notifications" -> srv.notifications
      [] OTHER -> <<>>

\* The exchanges of the running integration: the service answers an API
\* request with 200 or an error status, or the transport fails.
LiveExchanges == {ex \in Exchanges : ex.status \in {0, 200, 404} /\
                                     (ex.kind = "response" /\ ex.status = 200 => ex.json)
                                     /\ (ex.status = 404 => ~ex.json)}

----------------------------------------------------------------------------
(* __init__.py: async_update_data, the coordinator's update method *)

\* The four requests of one poll, in the order the code awaits them.
PollKeys == <<"watches", "tags", "systeminfo", "notifications">>
PollRequest(step) ==
    CASE step = 1 -> list_watches("", FALSE)
      [] step = 2 -> list_tags
      [] step = 3 -> systeminfo
      [] step = 4 -> get_notifications

NoLocals == [k \in {PollKeys[i] : i \in 1..4} |-> None]

\* Mutant of PollLocal: the watches of the stored snapshot are reused
\* instead of the payload of the request.
PollLocalCached(co, srv, step) ==
    IF step = 1 /\ co.data # None
    THEN [co.data[1]["watches"][1] EXCEPT !.poll = co.pollId]
    ELSE [body |-> ServerBody(srv, PollRequest(step)), poll |-> co.pollId,
          ver |-> srv.ver]

\* What a request of the poll leaves in its local: the payload the service
\* answered with (poll and ver record which poll read it, and after how
\* many writes of the service).
PollLocal(co, srv, step) ==
    [body |-> ServerBody(srv, PollRequest(step)), poll |-> co.pollId,
     ver |-> srv.ver]

\* except changedetectionApiError as err: raise UpdateFailed(...) from err;
\* any other exception leaves the update method as it is.
UpdateDataExcept(outcome) ==
    IF outcome.raises = "changedetectionApiError" THEN "UpdateFailed"
    ELSE outcome.raises

\* Mutant of UpdateDataReturn: the dict is returned without the
\* notifications.
UpdateDataReturnPartial(l) ==
    [watches |-> l["watches"], tags |-> l["tags"],
     systeminfo |-> l["systeminfo"], notifications |-> None]

\* The dict the update method returns, built from its four locals.
UpdateDataReturn(l) ==
    [watches |-> l["watches"], tags |-> l["tags"],
     systeminfo |-> l["systeminfo"], notifications |-> l["notifications"]]

----------------------------------------------------------------------------
(* The host's DataUpdateCoordinator (specification 4.2, 5): idle or       *)
(* fetching; requests made while a fetch is in flight coalesce onto it;    *)
(* success replaces the snapshot, failure keeps it; the timer continues.   *)

NewCoordinator ==
    [data |-> None, inflight |-> 0, step |-> 0, locals |-> NoLocals,
     pollId |-> 0, waiters |-> {}, last_update_success |-> TRUE,
     last_exception |-> "none", timer |-> FALSE,
     update_interval |-> DEFAULT_SCAN_INTERVAL,
     attempts |-> 0]

Fetching(co) == co.inflight > 0

\* callers: the handlers that await the refresh (none for the timer)
RequestRefresh(co, callers, nextPoll) ==
    IF Fetching(co)
    THEN [co EXCEPT !.waiters = co.waiters \cup callers]
    ELSE [co EXCEPT !.inflight = co.inflight + 1, !.step = 1,
                    !.locals = NoLocals, !.pollId = nextPoll,
                    !.waiters = callers]

\* raised: "none" when the update method returned dict.
FetchDone(co, raised, dict) ==
    [co EXCEPT !.data = IF raised = "none" THEN Some(dict) ELSE co.data,
               !.last_update_success = (raised = "none"),
               !.last_exception = raised,
               !.inflight = co.inflight - 1, !.step = 0,
               !.locals = NoLocals, !.waiters = {}]

----------------------------------------------------------------------------
(* __init__.py: the service handlers; button.py: the recheck button *)

Services ==
    {"create_watch", "delete_watch", "update_watch", "recheck_watch",
     "pause_watch", "unpause_watch", "mute_watch", "unmute_watch",
     "get_snapshot", "get_diff", "create_tag", "delete_tag", "update_tag",
     "recheck_tag", "mute_tag", "unmute_tag", "search", "bulk_import",
     "add_notifications", "replace_notifications", "delete_notifications"}

\* The recheck button's async_press, handled like a service call.
ButtonPressSvc == "press_recheck_button"

\* Call data the services' schemas accept (booleans in a JSON payload are
\* written "JSON true").
ServiceData(svc) ==
    CASE svc = "create_watch" ->
            {[url |-> u] : u \in WatchURLs}
            \cup {[url |-> u, title |-> "T"] : u \in WatchURLs}
      [] svc = "update_watch" -> {[uuid |-> u, paused |-> "JSON true"] : u \in UUIDs}
      [] svc \in {"delete_watch", "recheck_watch", "pause_watch",
                  "unpause_watch", "mute_watch", "unmute_watch",
                  ButtonPressSvc} -> {[uuid |-> u] : u \in UUIDs}
      [] svc = "get_snapshot" -> {[uuid |-> "u1"]}
      [] svc = "get_diff" -> {[uuid |-> "u1"], [uuid |-> "u1", word_diff |-> TRUE]}
      [] svc = "create_tag" -> {[title |-> "T"]}
      [] svc = "update_tag" ->
            {[uuid |-> t, notification_muted |-> "JSON true"] : t \in TagUUIDs}
      [] svc \in {"delete_tag", "recheck_tag", "mute_tag", "unmute_tag"} ->
            {[uuid |-> t] : t \in TagUUIDs}
      [] svc = "search" -> {[query |-> "q"]}
      [] svc = "bulk_import" -> {[urls_text |-> "https://example.com"]}
      [] svc \in {"add_notifications", "replace_notifications",
                  "delete_notifications"} ->
            {[notification_urls |-> NotificationURLs]}

\* call.data.get(key, default)
Get(d, key, default) == IF key \in DOMAIN d THEN d[key] ELSE default

\* {k: v for k, v in call.data.items() if k != ATTR_UUID}
WithoutUuid(d) == [k \in DOMAIN d \ {"uuid"} |-> d[k]]

\* handle_create_watch's payload: url, and each optional key that is given
CreateWatchPayload(d) ==
    [k \in {"url"} \cup (DOMAIN d \cap {"title", "tag", "tags", "method",
                                        "fetch_backend", "processor"}) |-> d[k]]

\* handle_create_tag's payload
CreateTagPayload(d) ==
    [k \in {"title"} \cup (DOMAIN d \cap {"notification_urls",
                                          "notification_muted"}) |-> d[k]]

\* The client request each handler awaits.
HandlerRequest(svc, d) ==
    CASE svc = "create_watch" -> create_watch(CreateWatchPayload(d))
      [] svc = "delete_watch" -> delete_watch(d["uuid"])
      [] svc = "update_watch" -> update_watch(d["uuid"], WithoutUuid(d))
      [] svc = "recheck_watch" -> get_watch(d["uuid"], TRUE, "", "")
      [] svc = ButtonPressSvc -> get_watch(d["uuid"], TRUE, "", "")
      [] svc = "pause_watch" -> get_watch(d["uuid"], FALSE, "paused", "")
      [] svc = "unpause_watch" -> get_watch(d["uuid"], FALSE, "unpaused", "")
      [] svc = "mute_watch" -> get_watch(d["uuid"], FALSE, "", "muted")
      [] svc = "unmute_watch" -> get_watch(d["uuid"], FALSE, "", "unmuted")
      [] svc = "get_snapshot" ->
            watch_snapshot(d["uuid"], Get(d, "timestamp", "latest"), FALSE)
      [] svc = "get_diff" ->
            watch_diff(d["uuid"], Get(d, "from_timestamp", "previous"),
                       Get(d, "to_timestamp", "latest"),
                       Get(d, "format", "htmlcolor"),
                       IF Get(d, "word_diff", FALSE) THEN "true" ELSE "false")
      [] svc = "create_tag" -> create_tag(CreateTagPayload(d))
      [] svc = "delete_tag" -> delete_tag(d["uuid"])
      [] svc = "update_tag" -> update_tag(d["uuid"], WithoutUuid(d))
      [] svc = "recheck_tag" -> get_tag(d["uuid"], "", TRUE)
      [] svc = "mute_tag" -> get_tag(d["uuid"], "muted", FALSE)
      [] svc = "unmute_tag" -> get_tag(d["uuid"], "unmuted", FALSE)
      [] svc = "search" -> search(d["query"], Get(d, "tag", ""), FALSE)
      [] svc = "bulk_import" ->
            bulk_import(d["urls_text"], Get(d, "tag_uuids", ""),
                        Get(d, "tag", ""), Get(d, "proxy", ""),
                        Get(d, "dedupe", TRUE))
      [] svc = "add_notifications" -> add_notifications(d["notification_urls"])
      [] svc = "replace_notifications" ->
            replace_notifications(d["notification_urls"])
      [] svc = "delete_notifications" ->
            delete_notifications(d["notification_urls"])

\* Whether the handler awaits coordinator.async_request_refresh() after its
\* client request.
HandlerRefreshes(svc) ==
    svc \in {"create_watch", "delete_watch", "update_watch", "pause_watch",
             "unpause_watch", "mute_watch", "unmute_watch", "create_tag",
             "delete_tag", "update_tag", "mute_tag", "unmute_tag",
             "bulk_import", "add_notifications", "replace_notifications",
             "delete_notifications"}

\* The event the handler fires on hass.bus, "" when it fires none.
HandlerEvent(svc) ==
    CASE svc = "get_snapshot" -> "changedetection_snapshot_received"
      [] svc = "get_diff" -> "changedetection_diff_received"
      [] svc = "search" -> "changedetection_search_results"
      [] svc = "bulk_import" -> "changedetection_import_completed"
      [] OTHER -> ""

\* The operation named in the handler's f"Failed to ...: {err}".
HandlerLabel(svc) ==
    CASE svc = "create_watch" -> "create watch"
      [] svc = "delete_watch" -> "delete watch"
      [] svc = "update_watch" -> "update watch"
      [] svc = "recheck_watch" -> "recheck watch"
      [] svc = ButtonPressSvc -> "recheck watch"
      [] svc = "pause_watch" -> "pause watch"
      [] svc = "unpause_watch" -> "unpause watch"
      [] svc = "mute_watch" -> "mute watch"
      [] svc = "unmute_watch" -> "unmute watch"
      [] svc = "get_snapshot" -> "get snapshot"
      [] svc = "get_diff" -> "get diff"
      [] svc = "create_tag" -> "create tag"
      [] svc = "delete_tag" -> "delete tag"
      [] svc = "update_tag" -> "update tag"
      [] svc = "recheck_tag" -> "recheck tag"
      [] svc = "mute_tag" -> "mute tag"
      [] svc = "unmute_tag" -> "unmute tag"
      [] svc = "search" -> "search"
      [] svc = "bulk_import" -> "bulk import"
      [] svc = "add_notifications" -> "add notifications"
      [] svc = "replace_notifications" -> "replace notifications"
      [] svc = "delete_notifications" -> "delete notifications"

Ok == [type |-> "ok", msg |-> <<>>]

\* except changedetectionApiError as err:
\*     raise HomeAssistantError(f"Failed to <operation>: {err}") from err
\* Any other exception leaves the handler as it is.
HandlerExcept(svc, outcome) ==
    IF outcome.raises = "changedetectionApiError"
    THEN [type |-> "HomeAssistantError",
          msg |-> <<"Failed to ", HandlerLabel(svc), ": ", outcome.msg>>]
    ELSE [type |-> outcome.raises, msg |-> <<outcome.msg>>]

\* Mutant of HandlerRequestsRefresh: the handler starts a fetch itself,
\* whether or not one is in flight.
HandlerStartsFetch(co, c, nextPoll) ==
    [co EXCEPT !.inflight = co.inflight + 1, !.step = 1, !.locals = NoLocals,
               !.pollId = nextPoll, !.waiters = co.waiters \cup {c}]

\* await coordinator.async_request_refresh(): the handler asks the
\* coordinator, which coalesces.
HandlerRequestsRefresh(co, c, nextPoll) == RequestRefresh(co, {c}, nextPoll)

IdleCall ==
    [pc |-> "idle", svc |-> "", data |-> <<>>, req |-> None, nreq |-> 0,
     raised |-> "none", result |-> [type |-> "", msg |-> <<>>], wrote |-> FALSE, writeVer |-> 0,
     joinedPoll |-> 0, refresh |-> None, log |-> <<>>,
     ret |-> None, events |-> <<>>,
     client |-> "", stored |-> FALSE]

FireEvent(svc) == IF HandlerEvent(svc) = "" THEN <<>> ELSE <<HandlerEvent(svc)>>

\* The data of the event the handler fires; ret is what the client request
\* returned (the handler's local snapshot, diff, results or imported).
HandlerEventData(svc, d, ret) ==
    CASE svc = "get_snapshot" ->
            [uuid |-> d["uuid"], timestamp |-> Get(d, "timestamp", "latest"),
             content |-> ret]
      [] svc = "get_diff" ->
            [uuid |-> d["uuid"],
             from_timestamp |-> Get(d, "from_timestamp", "previous"),
             to_timestamp |-> Get(d, "to_timestamp", "latest"),
             content |-> ret]
      [] svc = "search" -> [query |-> d["query"], results |-> ret]
      [] svc = "bulk_import" -> [imported_uuids |-> ret]

\* hass.bus.async_fire(event, data), for the handlers that fire one
BusFire(call) ==
    IF HandlerEvent(call.svc) = "" THEN <<>>
    ELSE <<[type |-> HandlerEvent(call.svc),
            data |-> HandlerEventData(call.svc, call.data, call.ret)]>>

\* What a client request that returned leaves in the handler's local: the
\* payload the service answered that request with, decoded or as text.
Returned(call, outcome) == Some([of |-> call.req[1], decoded |-> outcome.decoded])

\* Mutant of HandlerAfterRequest: the event is fired as soon as the request
\* returned, before the refresh.
HandlerAfterRequestFiresFirst(call, outcome) ==
    IF outcome.raises # "none"
    THEN [call EXCEPT !.pc = "done", !.raised = outcome.raises,
                      !.result = HandlerExcept(call.svc, outcome)]
    ELSE LET got == [call EXCEPT !.ret = Returned(call, outcome)]
             fired == [got EXCEPT !.log = call.log \o FireEvent(call.svc),
                                  !.events = call.events \o BusFire(got)]
         IN  IF HandlerRefreshes(call.svc)
             THEN [fired EXCEPT !.pc = "refresh"]
             ELSE [fired EXCEPT !.pc = "done", !.result = Ok]

\* Mutant of HandlerAfterRequest: the refresh is requested in a finally
\* clause, after a failed request as well.
HandlerAfterRequestAlwaysRefreshes(call, outcome) ==
    IF HandlerRefreshes(call.svc)
    THEN [call EXCEPT !.pc = "refresh", !.raised = outcome.raises]
    ELSE IF outcome.raises # "none"
    THEN [call EXCEPT !.pc = "done", !.raised = outcome.raises,
                      !.result = HandlerExcept(call.svc, outcome)]
    ELSE [call EXCEPT !.pc = "done", !.result = Ok,
                      !.log = call.log \o FireEvent(call.svc)]

\* The handler's first await: the client request, and what follows when it
\* returns or raises.
HandlerAfterRequest(call, outcome) ==
    IF outcome.raises # "none"
    THEN [call EXCEPT !.pc = "done", !.raised = outcome.raises,
                      !.result = HandlerExcept(call.svc, outcome)]
    ELSE LET got == [call EXCEPT !.ret = Returned(call, outcome)]
         IN  IF HandlerRefreshes(call.svc)
             THEN [got EXCEPT !.pc = "refresh"]
             ELSE [got EXCEPT !.pc = "done", !.result = Ok,
                              !.log = call.log \o FireEvent(call.svc),
                              !.events = call.events \o BusFire(got)]

\* Mutant of HandlerAfterRefresh: the handler reports a failed refresh as a
\* failure of the service call.
HandlerAfterRefreshChecked(call, poll, ok) ==
    [call EXCEPT !.pc = "done",
                 !.result = IF ok THEN Ok
                            ELSE [type |-> "HomeAssistantError",
                                  msg |-> <<"Failed to ", HandlerLabel(call.svc),
                                            ": ", "refresh failed">>],
                 !.refresh = Some([poll |-> poll, ok |-> ok]),
                 !.log = call.log \o FireEvent(call.svc)]

\* The handler's continuation when async_request_refresh() has returned:
\* the handler does not look at the refresh's outcome.
HandlerAfterRefresh(call, poll, ok) ==
    [call EXCEPT !.pc = "done", !.result = Ok,
                 !.refresh = Some([poll |-> poll, ok |-> ok]),
                 !.log = call.log \o FireEvent(call.svc),
                 !.events = call.events \o BusFire(call)]

----------------------------------------------------------------------------
(* State and actions *)

\* The handler tasks that may run at the same time.
CallIds == {"c1", "c2"}
\* The slot a new call runs in: the first free one.
FreeSlot(c) ==
    /\ calls[c].pc = "idle"
    /\ c = "c2" => calls["c1"].pc # "idle"
EntryId == "e1"
SystemSensors == {"watch_count", "tag_count", "version"}

RqIdle == [phase |-> "idle"]

\* hass.data[DOMAIN] (entry id -> handles) and the registered services
\* (service -> the entry whose setup registered the handler: the handler is
\* a closure over that setup's client and coordinator).
InitHass == [data |-> <<>>, services |-> <<>>]

\* hass.data[DOMAIN][entry.entry_id] = {"client": client, "coordinator": coordinator}
StoreHandles(h, e) ==
    [h EXCEPT !.data = With(h.data, e, [client |-> e, coordinator |-> e])]

\* Mutant of RegisterServices: a service that is registered keeps its
\* handler.
RegisterServicesOnce(h, e) ==
    [h EXCEPT !.services = [svc \in DOMAIN h.services \cup Services |->
                               IF svc \in DOMAIN h.services THEN h.services[svc]
                               ELSE e]]

\* hass.services.async_register(DOMAIN, service, handler, schema), for each
\* service: a registration replaces the handler registered before.
RegisterServices(h, e) ==
    [h EXCEPT !.services = [svc \in DOMAIN h.services \cup Services |->
                               IF svc \in Services THEN e ELSE h.services[svc]]]

\* Mutant of UnloadEntry: the handles are popped whatever the platforms'
\* unload returned.
UnloadEntryAlways(h, e, unload_ok) == [h EXCEPT !.data = Without(h.data, e)]

\* async_unload_entry: if unload_ok: hass.data[DOMAIN].pop(entry.entry_id);
\* nothing is unregistered.
UnloadEntry(h, e, unload_ok) ==
    IF unload_ok THEN [h EXCEPT !.data = Without(h.data, e)] ELSE h

InitEntry ==
    [state |-> "not_loaded", hass_data |-> {}, sensors |-> {}, buttons |-> {},
     system_sensors |-> {}, services |-> {}]

Init ==
    /\ rq = RqIdle
    /\ server = InitServer
    /\ entry = InitEntry
    /\ coord = NewCoordinator
    /\ hass = InitHass
    /\ calls = [c \in CallIds |-> IdleCall]
    /\ hist = [polls |-> 0, calls |-> 0]

\* Mutant of SetupBeforeRefresh: the handles are stored before the first
\* refresh is awaited.
SetupStoresBeforeRefresh(en) ==
    [en EXCEPT !.state = "first_refresh", !.hass_data = en.hass_data \cup {"e1"}]

\* What async_setup_entry has done to the entry when it awaits the first
\* refresh: nothing is stored, created or registered yet.
SetupBeforeRefresh(en) == [en EXCEPT !.state = "first_refresh"]

\* What async_setup_entry does after the first refresh returned: it stores
\* the handles, forwards the setup to the platforms (sensor.py and button.py
\* create an entity per watch of coordinator.data) and registers the services.
SetupAfterRefresh(en, data) ==
    [en EXCEPT !.state = "loaded",
               !.hass_data = en.hass_data \cup {EntryId},
               !.sensors = DOMAIN data["watches"][1].body,
               !.buttons = DOMAIN data["watches"][1].body,
               !.system_sensors = SystemSensors,
               !.services = Services]

\* async_setup_entry up to await coordinator.async_config_entry_first_refresh():
\* a client and a coordinator are constructed and the first poll starts.
SetupStart ==
    /\ entry.state \in {"not_loaded", "setup_failed"}
    /\ hist.polls < MaxPolls
    /\ coord' = RequestRefresh(NewCoordinator, {}, hist.polls + 1)
    /\ entry' = SetupBeforeRefresh(entry)
    /\ hist' = [hist EXCEPT !.polls = @ + 1]
    /\ UNCHANGED <<rq, server, calls, hass>>

\* async_setup_entry after the first refresh returned: the handles are
\* stored, the platforms create their entities from coordinator.data, the
\* services are registered.
SetupFinish ==
    /\ entry.state = "refreshed"
    /\ entry' = SetupAfterRefresh(entry, coord.data[1])
    /\ hass' = RegisterServices(StoreHandles(hass, EntryId), EntryId)
    /\ coord' = [coord EXCEPT !.timer = TRUE]
    /\ UNCHANGED <<rq, server, calls, hist>>

\* The fixed-interval timer fires.
TimerTick ==
    /\ coord.timer
    /\ Fetching(coord) \/ hist.polls < MaxPolls
    /\ coord' = RequestRefresh(coord, {}, hist.polls + 1)
    /\ hist' = IF Fetching(coord) THEN hist ELSE [hist EXCEPT !.polls = @ + 1]
    /\ UNCHANGED <<rq, server, entry, calls, hass>>

\* The update method has awaited one client operation: attempts keeps the
\* most HTTP exchanges an await of the coordinator's polls has made.
Awaited(co, ex) ==
    [co EXCEPT !.attempts = IF RequestAttempts(ex) > @ THEN RequestAttempts(ex)
                            ELSE @]

\* One of the first three requests of the poll returns: the update method
\* keeps the payload in a local and awaits the next request.
PollFetch ==
    \E ex \in LiveExchanges :
        /\ Fetching(coord) /\ coord.step \in 1..3
        /\ _request(ex).raises = "none"
        /\ coord' = [Awaited(coord, ex) EXCEPT
                        !.locals[PollKeys[coord.step]] =
                            Some(PollLocal(coord, server, coord.step)),
                        !.step = @ + 1]
        /\ UNCHANGED <<rq, server, entry, calls, hist, hass>>

\* The fetch in flight ends: the coordinator takes the outcome, the first
\* refresh of a setup ends with it, the handlers awaiting it resume.
EndFetch(co, raised, dict) ==
    /\ coord' = FetchDone(co, raised, dict)
    /\ calls' = [c \in CallIds |->
                    IF c \in coord.waiters
                    THEN HandlerAfterRefresh(calls[c], coord.pollId, raised = "none")
                    ELSE calls[c]]
    /\ entry' = IF entry.state = "first_refresh"
                THEN [entry EXCEPT !.state = IF raised = "none" THEN "refreshed"
                                             ELSE "setup_failed"]
                ELSE entry
    /\ UNCHANGED <<rq, server, hist, hass>>

\* The fourth request returns: the update method returns its dict.
PollReturn ==
    \E ex \in LiveExchanges :
        /\ Fetching(coord) /\ coord.step = 4
        /\ _request(ex).raises = "none"
        /\ EndFetch(Awaited(coord, ex), "none",
                    UpdateDataReturn(
                        [coord.locals EXCEPT ![PollKeys[4]] =
                            Some(PollLocal(coord, server, 4))]))

\* A request of the poll raises.
PollRaise ==
    \E ex \in LiveExchanges :
        /\ Fetching(coord)
        /\ _request(ex).raises # "none"
        /\ EndFetch(Awaited(coord, ex), UpdateDataExcept(_request(ex)), <<>>)

\* A handler (or the button) is called and awaits its client request; the
\* exchange happens, and the service applies a write it answers with 2xx
\* (a write whose answer timed out may have been applied as well).
StartCall(c, svc, d, ex, new, applied) ==
    LET req == HandlerRequest(svc, d)
        okResp == ex.kind = "response" /\ ex.status < 400
        doApply == okResp \/ (ex.kind = "TimeoutError" /\ applied
                              /\ ServerAccepts(server, req))
        srv == IF doApply THEN ServerApply(server, req, new) ELSE server
        call == [IdleCall EXCEPT !.svc = svc, !.data = d, !.req = Some(req),
                                 !.nreq = RequestAttempts(ex),
                                 !.log = [i \in 1..RequestAttempts(ex) |-> "request"],
                                 !.wrote = doApply /\ IsWrite(req),
                                 !.writeVer = srv.ver]
    IN  /\ FreeSlot(c)
        /\ okResp => ServerAccepts(server, req)
        /\ server' = srv
        /\ calls' = [calls EXCEPT ![c] = HandlerAfterRequest(call, _request(ex))]
        /\ hist' = [hist EXCEPT !.calls = @ + 1]
        /\ UNCHANGED <<rq, entry, coord, hass>>

\* The service calls made while the coordinator polls: the writes that add
\* a watch to the collection and remove one from it.
CoordCalls ==
    {<<"create_watch", [url |-> u]>> : u \in WatchURLs}
    \cup {<<"delete_watch", [uuid |-> u]>> : u \in UUIDs}

ServiceCall ==
    \E c \in CallIds, sd \in CoordCalls, ex \in LiveExchanges, applied \in BOOLEAN :
        \E new \in NewUUIDs(server, HandlerRequest(sd[1], sd[2])) :
            /\ sd[1] \in entry.services
            /\ hist.calls < MaxCalls
            /\ StartCall(c, sd[1], sd[2], ex, new, applied)

\* Any service, called on its own.
HandlerCall ==
    \E svc \in entry.services :
        \E d \in ServiceData(svc), ex \in LiveExchanges, applied \in BOOLEAN :
            \E new \in NewUUIDs(server, HandlerRequest(svc, d)) :
                /\ hist.calls = 0
                /\ StartCall("c1", svc, d, ex, new, applied)

\* The recheck button of a watch is pressed.
ButtonPress ==
    \E u \in entry.buttons, ex \in LiveExchanges :
        /\ hist.calls = 0
        /\ StartCall("c1", ButtonPressSvc, [uuid |-> u], ex, "u1", FALSE)

\* The handler has returned or raised: the call is over.
CallReturn ==
    \E c \in CallIds :
        /\ calls[c].pc = "done"
        /\ calls' = [calls EXCEPT ![c] = IdleCall]
        /\ UNCHANGED <<rq, server, entry, coord, hist, hass>>

\* await coordinator.async_request_refresh()
HandlerRefresh ==
    \E c \in CallIds :
        /\ calls[c].pc = "refresh"
        /\ Fetching(coord) \/ hist.polls < MaxPolls
        /\ coord' = HandlerRequestsRefresh(coord, c, hist.polls + 1)
        /\ calls' = [calls EXCEPT ![c].pc = "waiting",
                                  ![c].joinedPoll =
                                      IF Fetching(coord) THEN coord.pollId ELSE 0,
                                  ![c].log = @ \o <<"refresh">>]
        /\ hist' = IF Fetching(coord) THEN hist ELSE [hist EXCEPT !.polls = @ + 1]
        /\ UNCHANGED <<rq, server, entry, hass>>

Next ==
    \/ SetupStart
    \/ SetupFinish
    \/ TimerTick
    \/ PollFetch
    \/ PollReturn
    \/ PollRaise
    \/ ServiceCall
    \/ HandlerRefresh
    \/ CallReturn

Spec == Init /\ [][Next]_vars

\* Every handler and the button, one call at a time, without the timer.
NextHandlers ==
    \/ SetupStart
    \/ SetupFinish
    \/ PollFetch
    \/ PollReturn
    \/ PollRaise
    \/ HandlerCall
    \/ ButtonPress
    \/ HandlerRefresh

SpecHandlers == Init /\ [][NextHandlers]_vars

----------------------------------------------------------------------------
(* __init__.py: the service schemas.  A service is registered with its     *)
(* schema; the host validates the call data against it and calls the       *)
(* handler with the validated data, or rejects the call.                   *)

UuidServices ==
    {"delete_watch", "recheck_watch", "pause_watch", "unpause_watch",
     "mute_watch", "unmute_watch", "delete_tag", "recheck_tag", "mute_tag",
     "unmute_tag"}

\* vol.Required keys of the schema the service is registered with
SchemaRequired(svc) ==
    CASE svc = "create_watch" -> {"url"}
      [] svc \in {"update_watch", "update_tag", "get_snapshot", "get_diff"}
            \cup UuidServices -> {"uuid"}
      [] svc = "create_tag" -> {"title"}
      [] svc = "search" -> {"query"}
      [] svc = "bulk_import" -> {"urls_text"}
      [] svc \in {"add_notifications", "replace_notifications",
                  "delete_notifications"} -> {"notification_urls"}

\* vol.Optional keys
SchemaOptional(svc) ==
    CASE svc = "create_watch" ->
            {"title", "tag", "tags", "method", "fetch_backend", "processor"}
      [] svc = "update_watch" -> {"url", "title", "paused", "notification_muted"}
      [] svc = "get_snapshot" -> {"timestamp"}
      [] svc = "get_diff" -> {"from_timestamp", "to_timestamp", "format", "word_diff"}
      [] svc = "create_tag" -> {"notification_urls", "notification_muted"}
      [] svc = "update_tag" -> {"title", "notification_urls", "notification_muted"}
      [] svc = "search" -> {"tag"}
      [] svc = "bulk_import" -> {"tag_uuids", "tag", "proxy", "dedupe"}
      [] OTHER -> {}

\* Mutant of SchemaDefaults: get_diff's format defaults to "text".
SchemaDefaultsText(svc) ==
    CASE svc = "get_snapshot" -> [timestamp |-> "latest"]
      [] svc = "get_diff" ->
            [from_timestamp |-> "previous", to_timestamp |-> "latest",
             format |-> "text", word_diff |-> FALSE]
      [] svc = "bulk_import" -> [dedupe |-> TRUE]
      [] OTHER -> NoParams

\* vol.Optional(key, default=...)
SchemaDefaults(svc) ==
    CASE svc = "get_snapshot" -> [timestamp |-> "latest"]
      [] svc = "get_diff" ->
            [from_timestamp |-> "previous", to_timestamp |-> "latest",
             format |-> "htmlcolor", word_diff |-> FALSE]
      [] svc = "bulk_import" -> [dedupe |-> TRUE]
      [] OTHER -> NoParams

\* Mutant of SchemaAllows: no enumeration is checked.
SchemaAllowsAny(svc, key, v) == TRUE

\* The validator of a key: vol.In([...]) for the enumerated keys; the
\* strings, URLs, booleans and lists of the model pass cv.string, cv.url,
\* cv.boolean and cv.ensure_list as they are.
SchemaAllows(svc, key, v) ==
    CASE svc = "create_watch" /\ key = "method" ->
            v \in {"GET", "POST", "PUT", "DELETE"}
      [] svc = "create_watch" /\ key = "fetch_backend" ->
            v \in {"html_requests", "html_webdriver"}
      [] svc = "create_watch" /\ key = "processor" ->
            v \in {"text_json_diff", "restock_diff"}
      [] svc = "get_diff" /\ key = "format" ->
            v \in {"text", "html", "htmlcolor", "markdown"}
      [] OTHER -> TRUE

\* schema(call data): the data with the defaults of the absent optional
\* keys, or None when the schema raises vol.Invalid (a required key is
\* missing, a key is not in the schema, a value is not allowed).
Validate(svc, d) ==
    IF /\ SchemaRequired(svc) \subseteq DOMAIN d
       /\ DOMAIN d \subseteq SchemaRequired(svc) \cup SchemaOptional(svc)
       /\ \A k \in DOMAIN d : SchemaAllows(svc, k, d[k])
    THEN Some([k \in DOMAIN d \cup DOMAIN SchemaDefaults(svc) |->
                  IF k \in DOMAIN d THEN d[k] ELSE SchemaDefaults(svc)[k]])
    ELSE None

\* Call data as a caller may send it: what ServiceData has, values in and
\* out of the enumerations, a missing required key, a key no schema has.
RawServiceData(svc) ==
    ServiceData(svc) \cup
    CASE svc = "create_watch" ->
            {[url |-> "https://example.com", method |-> m] :
                 m \in {"GET", "DELETE", "PATCH"}}
            \cup {[url |-> "https://example.com", fetch_backend |-> f] :
                 f \in {"html_requests", "html_webdriver", "playwright"}}
            \cup {[url |-> "https://example.com", processor |-> p] :
                 p \in {"text_json_diff", "restock_diff", "visual_diff"}}
            \cup {[title |-> "T"]}
      [] svc = "get_diff" ->
            {[uuid |-> "u1", format |-> f] :
                 f \in {"text", "html", "htmlcolor", "markdown", "pdf"}}
            \cup {[uuid |-> "u1", word_diff |-> FALSE],
                  [uuid |-> "u1", from_timestamp |-> "100", to_timestamp |-> "200"]}
      [] svc = "delete_watch" -> {[uuid |-> "u1", force |-> "yes"]}
      [] OTHER -> {}

\* The host rejects the call: the handler is not called.
RejectCall(c, svc, d) ==
    /\ FreeSlot(c)
    /\ calls' = [calls EXCEPT ![c] =
                    [IdleCall EXCEPT !.pc = "done", !.svc = svc, !.data = d,
                                     !.result = [type |-> "vol.Invalid", msg |-> <<>>]]]
    /\ hist' = [hist EXCEPT !.calls = @ + 1]
    /\ UNCHANGED <<rq, server, entry, coord, hass>>

\* A service is called with a payload the schema rejects.
InvalidCall ==
    \E svc \in entry.services :
        \E d \in RawServiceData(svc) :
            /\ hist.calls = 0
            /\ Validate(svc, d) = None
            /\ RejectCall("c1", svc, d)

\* A service is called with a payload the schema accepts: the handler gets
\* the validated data.
ValidCall ==
    \E svc \in entry.services :
        \E raw \in RawServiceData(svc), ex \in LiveExchanges, applied \in BOOLEAN :
            /\ hist.calls = 0
            /\ Validate(svc, raw) # None
            /\ \E new \in NewUUIDs(server, HandlerRequest(svc, Validate(svc, raw)[1])) :
                  StartCall("c1", svc, Validate(svc, raw)[1], ex, new, applied)

NextSchema ==
    \/ SetupStart
    \/ SetupFinish
    \/ PollFetch
    \/ PollReturn
    \/ PollRaise
    \/ InvalidCall
    \/ ValidCall
    \/ HandlerRefresh

SpecSchema == Init /\ [][NextSchema]_vars

----------------------------------------------------------------------------
(* The poll interval.  coordinator.py defines a coordinator class that     *)
(* takes a scan interval; async_setup_entry does not use it and constructs *)
(* the host's DataUpdateCoordinator itself.                                *)

\* coordinator.py: timedelta(seconds=scan_interval_s or DEFAULT_SCAN_INTERVAL);
\* a scan interval that is not configured is 0 (or None), which is falsy.
ScanIntervalOrDefault(scan_interval_s) ==
    IF scan_interval_s = 0 THEN DEFAULT_SCAN_INTERVAL ELSE scan_interval_s

\* The poll intervals an entry may be configured with; 0: not configured.
ScanIntervals == {0, 30}

InitInterval ==
    /\ rq = RqIdle
    /\ server = InitServer
    /\ entry \in {InitEntry @@ [scan_interval |-> s] : s \in ScanIntervals}
    /\ coord = NewCoordinator
    /\ hass = InitHass
    /\ calls = [c \in CallIds |-> IdleCall]
    /\ hist = [polls |-> 0, calls |-> 0]

NextInterval ==
    \/ SetupStart
    \/ SetupFinish
    \/ TimerTick
    \/ PollFetch
    \/ PollReturn
    \/ PollRaise
    \/ HandlerCall
    \/ HandlerRefresh

SpecInterval == InitInterval /\ [][NextInterval]_vars

----------------------------------------------------------------------------
(* Several config entries in one host.  Each setup constructs a client and *)
(* a coordinator of its own; hass.data[DOMAIN] and the service registry    *)
(* are shared.  A poll is taken as one step here.                          *)

EntryIds == {"e1", "e2"}

InitEntries ==
    /\ rq = RqIdle
    /\ server = [e \in EntryIds |-> InitServer]
    /\ entry = [e \in EntryIds |-> InitEntry]
    /\ hass = InitHass
    /\ coord = [e \in EntryIds |-> NewCoordinator]
    /\ calls = [c \in CallIds |-> IdleCall]
    /\ hist = [polls |-> 0, calls |-> 0, last |-> ""]

\* async_setup_entry up to the await of the first refresh
EntrySetupStart(e) ==
    /\ entry[e].state \in {"not_loaded", "setup_failed"}
    /\ entry' = [entry EXCEPT ![e] = SetupBeforeRefresh(entry[e])]
    /\ coord' = [coord EXCEPT ![e] = RequestRefresh(NewCoordinator, {}, 1)]
    /\ UNCHANGED <<rq, server, hass, calls, hist>>

\* The handlers that awaited the fetch of coordinator e resume.
ResumeWaiters(e, ok) ==
    [c \in CallIds |->
        IF c \in coord[e].waiters
        THEN HandlerAfterRefresh(calls[c], coord[e].pollId, ok)
        ELSE calls[c]]

\* The four requests of e's poll return.  When the poll is the first
\* refresh of a setup, async_setup_entry goes on, without an await in
\* between, to store the handles, and then awaits the platforms' setup.
EntryPollReturn(e) ==
    LET l == [k \in {PollKeys[i] : i \in 1..4} |->
                 Some(PollLocal(coord[e], server[e],
                                CHOOSE i \in 1..4 : PollKeys[i] = k))]
        first == entry[e].state = "first_refresh"
    IN  /\ Fetching(coord[e])
        /\ coord' = [coord EXCEPT ![e] = FetchDone(coord[e], "none", UpdateDataReturn(l))]
        /\ calls' = ResumeWaiters(e, TRUE)
        /\ entry' = IF first
                    THEN [entry EXCEPT ![e].state = "forwarding",
                                       ![e].hass_data = {e}]
                    ELSE entry
        /\ hass' = IF first THEN StoreHandles(hass, e) ELSE hass
        /\ UNCHANGED <<rq, server, hist>>

\* A request of e's poll raises.
EntryPollRaise(e) ==
    \E ex \in LiveExchanges :
        /\ Fetching(coord[e])
        /\ _request(ex).raises # "none"
        /\ coord' = [coord EXCEPT ![e] =
                        FetchDone(coord[e], UpdateDataExcept(_request(ex)), <<>>)]
        /\ calls' = ResumeWaiters(e, FALSE)
        /\ entry' = IF entry[e].state = "first_refresh"
                    THEN [entry EXCEPT ![e].state = "setup_failed"]
                    ELSE entry
        /\ UNCHANGED <<rq, server, hass, hist>>

\* async_setup_entry after the platforms were set up: the services are
\* registered with handlers that close over this setup's client and
\* coordinator.  last: the entry whose setup completed most recently.
EntrySetupFinish(e) ==
    /\ entry[e].state = "forwarding"
    /\ entry' = [entry EXCEPT ![e] =
                    [SetupAfterRefresh(entry[e], coord[e].data[1])
                        EXCEPT !.hass_data = {e}]]
    /\ hass' = RegisterServices(hass, e)
    /\ coord' = [coord EXCEPT ![e].timer = TRUE]
    /\ hist' = [hist EXCEPT !.last = e]
    /\ UNCHANGED <<rq, server, calls>>

\* async_unload_entry: the host unloads the platforms (which removes the
\* entities and may fail), then the handles are popped if that succeeded.
EntryUnload(e) ==
    \E unload_ok \in BOOLEAN :
        /\ entry[e].state = "loaded"
        /\ hass' = UnloadEntry(hass, e, unload_ok)
        /\ entry' = IF unload_ok
                    THEN [entry EXCEPT ![e] =
                            [InitEntry EXCEPT !.services = entry[e].services]]
                    ELSE [entry EXCEPT ![e].state = "failed_unload"]
        /\ coord' = [coord EXCEPT ![e].timer = ~unload_ok]
        /\ UNCHANGED <<rq, server, calls, hist>>

\* The service called while two entries come and go.
EntryCalls == {<<"create_watch", [url |-> u]>> : u \in WatchURLs}

\* A registered service is called, one call at a time: the handler runs
\* with the client of the setup that registered it.
EntryCall ==
    \E c \in {"c1"}, sd \in EntryCalls, ex \in LiveExchanges :
        /\ sd[1] \in DOMAIN hass.services
        /\ hist.calls < MaxCalls
        /\ FreeSlot(c)
        /\ LET e == hass.services[sd[1]]
               req == HandlerRequest(sd[1], sd[2])
               okResp == ex.kind = "response" /\ ex.status < 400
           IN  \E new \in NewUUIDs(server[e], req) :
                  LET srv == IF okResp THEN ServerApply(server[e], req, new)
                             ELSE server[e]
                      call == [IdleCall EXCEPT
                                  !.svc = sd[1], !.data = sd[2], !.req = Some(req),
                                  !.nreq = RequestAttempts(ex),
                                  !.log = [i \in 1..RequestAttempts(ex) |-> "request"],
                                  !.wrote = okResp /\ IsWrite(req),
                                  !.writeVer = srv.ver,
                                  !.client = e,
                                  !.stored = e \in DOMAIN hass.data]
                  IN  /\ okResp => ServerAccepts(server[e], req)
                      /\ server' = [server EXCEPT ![e] = srv]
                      /\ calls' = [calls EXCEPT ![c] =
                                      HandlerAfterRequest(call, _request(ex))]
        /\ hist' = [hist EXCEPT !.calls = @ + 1]
        /\ UNCHANGED <<rq, entry, coord, hass>>

\* await coordinator.async_request_refresh(), on the coordinator the
\* handler closes over
EntryHandlerRefresh ==
    \E c \in CallIds :
        LET e == calls[c].client
        IN  /\ calls[c].pc = "refresh"
            /\ Fetching(coord[e]) \/ coord[e].pollId < MaxPolls
            /\ coord' = [coord EXCEPT ![e] =
                            HandlerRequestsRefresh(coord[e], c, coord[e].pollId + 1)]
            /\ calls' = [calls EXCEPT
                            ![c].pc = "waiting",
                            ![c].joinedPoll =
                                IF Fetching(coord[e]) THEN coord[e].pollId ELSE 0,
                            ![c].log = @ \o <<"refresh">>]
            /\ UNCHANGED <<rq, server, entry, hass, hist>>

NextEntries ==
    \/ \E e \in EntryIds : EntrySetupStart(e)
    \/ \E e \in EntryIds : EntryPollReturn(e)
    \/ \E e \in EntryIds : EntryPollRaise(e)
    \/ \E e \in EntryIds : EntrySetupFinish(e)
    \/ \E e \in EntryIds : EntryUnload(e)
    \/ EntryCall
    \/ EntryHandlerRefresh
    \/ CallReturn

SpecEntries == InitEntries /\ [][NextEntries]_vars

----------------------------------------------------------------------------
(* One client request on its own: every operation against every outcome of *)
(* the exchange.                                                           *)

InitRequest ==
    /\ rq \in [phase : {"pending"}, req : ClientRequests, ex : Exchanges,
               base : BaseURLs, key : ApiKeys, url : {<<>>}, hdrs : {NoParams},
               attempts : {0},
               result : {Return("none", 0)}]
    /\ server = InitServer
    /\ entry = InitEntry
    /\ coord = NewCoordinator
    /\ hass = InitHass
    /\ calls = [c \in CallIds |-> IdleCall]
    /\ hist = [polls |-> 0, calls |-> 0]

DoRequest ==
    /\ rq.phase = "pending"
    /\ rq' = [rq EXCEPT !.phase = "done",
                        !.url = <<NewClient(rq.base, rq.key).base_url>>
                                    \o rq.req.path,
                        !.hdrs = RequestHeaders(NewClient(rq.base, rq.key), rq.req),
                        !.attempts = RequestAttempts(rq.ex),
                        !.result = _request(rq.ex)]
    /\ UNCHANGED <<server, entry, coord, calls, hist, hass>>

NextRequest == DoRequest

SpecRequest == InitRequest /\ [][NextRequest]_vars

----------------------------------------------------------------------------
(* The pause/unpause/mute/unmute services, called one after the other on   *)
(* a watch whose flags start in any state.                                 *)

FlagServices == {"pause_watch", "unpause_watch", "mute_watch", "unmute_watch"}

InitFlags ==
    /\ rq = RqIdle
    /\ server \in {[InitServer EXCEPT !.watches["u1"] = [paused |-> p, muted |-> m]] :
                      p \in BOOLEAN, m \in BOOLEAN}
    /\ entry = InitEntry
    /\ coord = NewCoordinator
    /\ hass = InitHass
    /\ calls = [c \in CallIds |-> IdleCall]
    /\ hist = [polls |-> 0, calls |-> 0]

FlagCall ==
    \E c \in CallIds, svc \in FlagServices \cap entry.services,
       ex \in LiveExchanges, applied \in BOOLEAN :
        \E d \in ServiceData(svc) :
            /\ hist.calls < MaxCalls
            /\ StartCall(c, svc, d, ex, "u1", applied)

NextFlags ==
    \/ SetupStart
    \/ SetupFinish
    \/ PollFetch
    \/ PollReturn
    \/ PollRaise
    \/ FlagCall
    \/ HandlerRefresh
    \/ CallReturn

SpecFlags == InitFlags /\ [][NextFlags]_vars

----------------------------------------------------------------------------
(* sensor.py, button.py: the entities of an entry.  The watch collection   *)
(* is written to by service calls while the coordinator polls; the watch   *)
(* the service starts with has its flags in any state.                     *)

\* What the list answer holds for a watch: its flags under the names of the
\* API, and last_changed, here the number of writes the service had applied
\* when it answered (0: never changed).
WatchPayload(part, uuid) ==
    [paused |-> part.body[uuid].paused,
     notification_muted |-> part.body[uuid].muted,
     last_changed |-> part.ver,
     tags |-> <<>>]

\* self.coordinator.data.get("watches", {}).get(self._uuid, {})
WatchData(co, uuid) ==
    LET part == co.data[1]["watches"][1]
    IN  IF uuid \in DOMAIN part.body THEN WatchPayload(part, uuid) ELSE <<>>

\* ChangeDetectionWatchSensor.native_value: the datetime of last_changed,
\* None when the key is absent or its value is falsy.
native_value(data) ==
    IF "last_changed" \in DOMAIN data /\ data["last_changed"] # 0
    THEN Some(data["last_changed"])
    ELSE None

\* Mutant of extra_state_attributes: a watch without data counts as paused.
extra_state_attributes_PausedByDefault(uuid, data) ==
    [uuid |-> uuid,
     paused |-> Get(data, "paused", TRUE),
     notification_muted |-> Get(data, "notification_muted", FALSE),
     tags |-> Get(data, "tags", <<>>)]

\* ChangeDetectionWatchSensor.extra_state_attributes (the attributes with a
\* default other than None, and uuid).
extra_state_attributes(uuid, data) ==
    [uuid |-> uuid,
     paused |-> Get(data, "paused", FALSE),
     notification_muted |-> Get(data, "notification_muted", FALSE),
     tags |-> Get(data, "tags", <<>>)]

\* A service that adds or removes a watch is called, one call at a time.
PlatformCall ==
    \E sd \in CoordCalls, ex \in LiveExchanges, applied \in BOOLEAN :
        \E new \in NewUUIDs(server, HandlerRequest(sd[1], sd[2])) :
            /\ sd[1] \in entry.services
            /\ hist.calls < MaxCalls
            /\ StartCall("c1", sd[1], sd[2], ex, new, applied)

NextPlatforms ==
    \/ SetupStart
    \/ SetupFinish
    \/ TimerTick
    \/ PollFetch
    \/ PollReturn
    \/ PollRaise
    \/ PlatformCall
    \/ HandlerRefresh
    \/ CallReturn

SpecPlatforms == InitFlags /\ [][NextPlatforms]_vars

----------------------------------------------------------------------------
(* config_flow.py: the user step of the config flow, one flow at a time    *)

\* config flows that may be started
MaxFlows == 3

\* validate_input: the systeminfo probe through a client built from the
\* input.  changedetectionApiError becomes ValueError, any other exception
\* passes through; systeminfo.get(...) needs the decoded JSON object, the
\* raw text of another content type has no such method.
validate_input(srv, ex) ==
    LET r == _request(ex)
    IN  IF r.raises = "changedetectionApiError"
        THEN [raises |-> "ValueError", title |-> 0]
        ELSE IF r.raises # "none"
        THEN [raises |-> r.raises, title |-> 0]
        ELSE IF r.decoded # "json"
        THEN [raises |-> "AttributeError", title |-> 0]
        ELSE [raises |-> "none",
              title |-> ServerBody(srv, systeminfo).watch_count]

\* async_step_user with user_input given, from the return of
\* validate_input on: the form again with an error, the abort of
\* _abort_if_unique_id_configured (the unique id is the base URL as
\* entered), or the new entry.
async_step_user(entries, user_input, info) ==
    IF info.raises = "ValueError"
    THEN [type |-> "form", errors |-> "cannot_connect", reason |-> ""]
    ELSE IF info.raises # "none"
    THEN [type |-> "form", errors |-> "unknown", reason |-> ""]
    ELSE IF user_input.base_url \in DOMAIN entries
    THEN [type |-> "abort", errors |-> "", reason |-> "already_configured"]
    ELSE [type |-> "create_entry", errors |-> "", reason |-> ""]

FlowIdle == [phase |-> "none", errors |-> ""]

InitFlow ==
    /\ rq = FlowIdle
    /\ server = InitServer
    /\ entry = InitEntry
    /\ coord = NewCoordinator
    /\ hass = InitHass @@ [config_entries |-> <<>>]
    /\ calls = [c \in CallIds |-> IdleCall]
    /\ hist = [polls |-> 0, calls |-> 0, flows |-> 0]

\* async_step_user(None): a new flow shows the empty form.
FlowStart ==
    /\ rq.phase \in {"none", "create_entry", "abort"}
    /\ hist.flows < MaxFlows
    /\ rq' = [phase |-> "form", errors |-> ""]
    /\ hist' = [hist EXCEPT !.flows = @ + 1]
    /\ UNCHANGED <<server, entry, coord, calls, hass>>

\* The form is submitted: async_step_user awaits validate_input, whose
\* probe ends in one of the exchanges.
FlowSubmit ==
    \E base \in BaseURLs, key \in ApiKeys, ex \in Exchanges :
        /\ rq.phase = "form"
        /\ rq' = [phase |-> "probing", errors |-> rq.errors,
                  user_input |-> [base_url |-> base, api_key |-> key],
                  ex |-> ex]
        /\ UNCHANGED <<server, entry, coord, calls, hist, hass>>

\* validate_input has returned or raised: the rest of async_step_user.
FlowResult ==
    /\ rq.phase = "probing"
    /\ LET res == async_step_user(hass.config_entries, rq.user_input,
                                  validate_input(server, rq.ex))
       IN  /\ rq' = [rq EXCEPT !.phase = res.type, !.errors = res.errors]
           /\ hass' = IF res.type = "create_entry"
                      THEN [hass EXCEPT !.config_entries =
                               With(@, rq.user_input.base_url, rq.user_input)]
                      ELSE hass
    /\ UNCHANGED <<server, entry, coord, calls, hist>>

NextFlow ==
    \/ FlowStart
    \/ FlowSubmit
    \/ FlowResult

SpecFlow == InitFlow /\ [][NextFlow]_vars

----------------------------------------------------------------------------
(* Properties *)

Is2xx(status) == status \in 200..299

\* C1: for every client operation and every response whose status is not
\* 2xx, the call raises changedetectionApiError carrying the status and
\* the response body, and returns no payload (decoded or raw).
C1_NonSuccessRaisesApiError ==
    (rq.phase = "done" /\ rq.ex.kind = "response" /\ ~Is2xx(rq.ex.status))
        => /\ rq.result.raises = "changedetectionApiError"
           /\ rq.result.status = rq.ex.status
           /\ rq.result.body
           /\ rq.result.decoded = "none"

\* C2: a transport failure and the expiry of the timeout both make the call
\* raise changedetectionApiError wrapping the cause; nothing else escapes.
C2_TransportFailureRaisesApiError ==
    (rq.phase = "done" /\ rq.ex.kind \in {"ClientError", "TimeoutError"})
        => /\ rq.result.raises = "changedetectionApiError"
           /\ rq.result.cause = rq.ex.kind

Snapshot == coord.data[1]
SnapshotKeys == {PollKeys[i] : i \in 1..4}

\* C3: the snapshot is absent, or whole and read by one poll: all four
\* parts are filled and carry the same poll.
C3_SnapshotWholeAndOfOnePoll ==
    coord.data # None
        => /\ DOMAIN Snapshot = SnapshotKeys
           /\ \A k \in SnapshotKeys :
                /\ Snapshot[k] # None
                /\ Snapshot[k][1].poll = Snapshot["watches"][1].poll

\* A later poll has replaced the snapshot of the first one while the
\* service was written to in between.
C3_Witness ==
    /\ coord.data # None
    /\ Snapshot["watches"][1].poll > 1
    /\ Snapshot["notifications"][1].ver > 0

\* A step in which the fetch in flight ends in a failure.
FetchFails == Fetching(coord) /\ ~Fetching(coord') /\ ~coord'.last_update_success

\* C4: a failed poll is surfaced as UpdateFailed, leaves the stored
\* snapshot as it was, and leaves the timer running.
C4_FailedPollIsUpdateFailed ==
    [][FetchFails => /\ coord'.last_exception = "UpdateFailed"
                     /\ coord'.data = coord.data
                     /\ coord'.timer = coord.timer]_vars

\* C5: at most one fetch is in flight; a handler whose refresh request met
\* a fetch in flight waits for that fetch, no other fetch is started for
\* it, and it receives the outcome of that very fetch.
C5_SingleFlight ==
    /\ coord.inflight <= 1
    /\ hist.polls = coord.pollId
    /\ \A c \in CallIds :
        /\ calls[c].pc = "waiting" => Fetching(coord) /\ c \in coord.waiters
        /\ (calls[c].pc = "waiting" /\ calls[c].joinedPoll # 0)
              => calls[c].joinedPoll = coord.pollId
        /\ (calls[c].refresh # None /\ calls[c].joinedPoll # 0)
              => calls[c].refresh[1].poll = calls[c].joinedPoll
        /\ (calls[c].refresh # None /\ ~Fetching(coord)
            /\ calls[c].refresh[1].poll = coord.pollId)
              => calls[c].refresh[1].ok = coord.last_update_success

\* Two handlers asked for a refresh while one fetch was in flight, and both
\* got its outcome.
C5_Witness ==
    /\ \A c \in CallIds :
        /\ calls[c].refresh # None
        /\ calls[c].joinedPoll = calls[c].refresh[1].poll
    /\ calls["c1"].refresh = calls["c2"].refresh

\* The services the claim names as writes.
WriteServices ==
    {"create_watch", "update_watch", "delete_watch", "pause_watch",
     "unpause_watch", "mute_watch", "unmute_watch", "create_tag",
     "update_tag", "delete_tag", "mute_tag", "unmute_tag", "bulk_import",
     "add_notifications", "replace_notifications", "delete_notifications"}

RefreshRequested(call) == \E i \in 1..Len(call.log) : call.log[i] = "refresh"

\* C6: every write handler issues its client request first and asks for a
\* refresh only after the request returned; after a failed request it asks
\* for none.  create_watch with {"url": U} sends POST /api/v1/watch with
\* the JSON body {"url": U}.
C6_RefreshOnlyAfterSuccessfulRequest ==
    \A c \in CallIds :
        LET call == calls[c]
        IN  (call.pc # "idle" /\ call.svc \in WriteServices)
              => /\ call.nreq = 1 /\ call.log[1] = "request"
                 /\ call.raised = "none"
                      => /\ call.pc \in {"refresh", "waiting", "done"}
                         /\ call.pc = "refresh" <=> ~RefreshRequested(call)
                         /\ RefreshRequested(call) => call.log[2] = "refresh"
                 /\ call.raised # "none"
                      => call.pc = "done" /\ ~RefreshRequested(call)
                 /\ (call.svc = "create_watch" /\ DOMAIN call.data = {"url"})
                      => /\ call.req[1].method = "POST"
                         /\ call.req[1].path = <<"api", "v1", "watch">>
                         /\ call.req[1].json = [url |-> call.data["url"]]

\* create_watch with only a url has returned after its request and refresh.
C6_Witness ==
    /\ calls["c1"].svc = "create_watch"
    /\ DOMAIN calls["c1"].data = {"url"}
    /\ calls["c1"].pc = "done"
    /\ calls["c1"].log = <<"request", "refresh">>

\* A write call has returned after its write was applied and the refresh
\* it asked for succeeded.
WroteAndRefreshed(call) ==
    /\ call.pc = "done" /\ call.wrote /\ call.raised = "none"
    /\ call.refresh # None /\ call.refresh[1].ok

\* The snapshot's watches were read after the call's write.
ReflectsWrite(call) ==
    /\ coord.data # None
    /\ Snapshot["watches"][1].ver >= call.writeVer
    /\ server.ver = call.writeVer
          => Snapshot["watches"][1].body = server.watches

\* C7 as claimed: after a successful write and its successful refresh the
\* snapshot reflects the write, also when the refresh was coalesced with a
\* fetch already in flight.
C7_SnapshotReflectsWrite ==
    \A c \in CallIds : WroteAndRefreshed(calls[c]) => ReflectsWrite(calls[c])

\* C7 as amended: the snapshot reflects the write when the refresh started
\* a fetch of its own; a refresh coalesced with a fetch already in flight
\* may deliver watches read before the write.
C7_SnapshotReflectsWriteOfOwnFetch ==
    \A c \in CallIds :
        (WroteAndRefreshed(calls[c]) /\ calls[c].joinedPoll = 0)
            => ReflectsWrite(calls[c])

C7_Witness ==
    \E c \in CallIds :
        /\ WroteAndRefreshed(calls[c]) /\ calls[c].joinedPoll = 0
        /\ calls[c].svc = "create_watch"
        /\ "u2" \in DOMAIN Snapshot["watches"][1].body

\* C8: when the refresh after a successful write fails, the handler still
\* returns normally and has sent nothing but its one request; the step in
\* which the fetch fails changes neither the snapshot nor the service.
C8_WriteStandsWhenRefreshFails ==
    /\ [](\A c \in CallIds :
            (calls[c].refresh # None /\ ~calls[c].refresh[1].ok)
                => /\ calls[c].result = Ok
                   /\ calls[c].nreq = 1
                   /\ calls[c].raised = "none")
    /\ [][FetchFails => coord'.data = coord.data /\ server' = server]_vars

C8_Witness ==
    \E c \in CallIds :
        /\ calls[c].pc = "done" /\ calls[c].wrote
        /\ calls[c].refresh # None /\ ~calls[c].refresh[1].ok
        /\ calls[c].svc = "delete_watch"
        /\ "u1" \notin DOMAIN server.watches
        /\ "u1" \in DOMAIN Snapshot["watches"][1].body

\* C9: whenever the client request of a handler or of the button fails, the
\* call ends in HomeAssistantError "Failed to <operation>: <detail>".
C9_FailureIsHomeAssistantError ==
    \A c \in CallIds :
        (calls[c].pc = "done" /\ calls[c].raised # "none")
            => /\ calls[c].result.type = "HomeAssistantError"
               /\ calls[c].result.msg[1] = "Failed to "
               /\ calls[c].result.msg[2] = HandlerLabel(calls[c].svc)

\* C10: until the first poll of a setup has succeeded nothing is stored,
\* created or registered and no snapshot exists; a loaded entry has a
\* whole snapshot.
C10_NothingBeforeFirstSuccessfulPoll ==
    /\ entry.state # "loaded"
          => /\ entry.hass_data = {} /\ entry.sensors = {} /\ entry.buttons = {}
             /\ entry.system_sensors = {} /\ entry.services = {}
             /\ ~coord.timer
    /\ entry.state \in {"not_loaded", "first_refresh", "setup_failed"}
          => coord.data = None
    /\ entry.state \in {"refreshed", "loaded"}
          => coord.data # None /\ \A k \in SnapshotKeys : Snapshot[k] # None

\* The first poll of a setup has failed.
C10_Witness ==
    /\ entry.state = "setup_failed"
    /\ ~coord.last_update_success

\* The one query parameter each of the four services is to send.
FlagParams(svc) ==
    CASE svc = "pause_watch" -> [paused |-> "paused"]
      [] svc = "unpause_watch" -> [paused |-> "unpaused"]
      [] svc = "mute_watch" -> [muted |-> "muted"]
      [] svc = "unmute_watch" -> [muted |-> "unmuted"]

\* Call b's write was applied right after call a's, on the same watch, and
\* nothing was written since.
WroteInARow(a, b) ==
    /\ calls[a].pc # "idle" /\ calls[b].pc # "idle"
    /\ calls[a].wrote /\ calls[b].wrote
    /\ calls[a].data = calls[b].data
    /\ calls[b].writeVer = calls[a].writeVer + 1
    /\ server.ver = calls[b].writeVer

\* C11: each of the four services sends GET /api/v1/watch/{uuid} with its
\* one flag parameter and nothing else; pause followed by pause leaves the
\* watch paused, mute followed by unmute leaves it not muted, from any
\* initial flags of the watch.
C11_PauseIdempotentMuteReversible ==
    /\ \A c \in CallIds :
        calls[c].svc \in FlagServices
            => /\ calls[c].nreq = 1
               /\ calls[c].req[1].method = "GET"
               /\ calls[c].req[1].path = <<"api", "v1", "watch", calls[c].data["uuid"]>>
               /\ calls[c].req[1].params = FlagParams(calls[c].svc)
               /\ calls[c].req[1].json = NoJson
    /\ \A a \in CallIds, b \in CallIds :
        WroteInARow(a, b)
            => LET w == server.watches[calls[a].data["uuid"]]
               IN  /\ (calls[a].svc = "pause_watch" /\ calls[b].svc = "pause_watch")
                         => w.paused
                   /\ (calls[a].svc = "mute_watch" /\ calls[b].svc = "unmute_watch")
                         => ~w.muted

\* A watch was muted and then unmuted.
C11_Witness ==
    \E a \in CallIds, b \in CallIds :
        /\ WroteInARow(a, b)
        /\ calls[a].svc = "mute_watch" /\ calls[b].svc = "unmute_watch"
        /\ calls[b].pc = "done" /\ calls[b].result = Ok

\* The request get_diff is to send for the call data raw.
DiffRequestFor(raw) ==
    [method |-> "GET",
     path |-> <<"api", "v1", "watch", raw["uuid"], "difference",
                Get(raw, "from_timestamp", "previous"),
                Get(raw, "to_timestamp", "latest")>>,
     format |-> Get(raw, "format", "htmlcolor"),
     word_diff |-> IF Get(raw, "word_diff", FALSE) THEN "true" ELSE "false"]

\* C12: get_diff sends GET /watch/{uuid}/difference/{from}/{to} where from
\* defaults to "previous", to to "latest", format to "htmlcolor" and
\* word_diff is the string "true" or "false" ("false" when absent).
C12_GetDiffDefaults ==
    \A c \in CallIds :
        (calls[c].svc = "get_diff" /\ calls[c].nreq = 1)
            => \A raw \in RawServiceData("get_diff") :
                  Validate("get_diff", raw) = Some(calls[c].data)
                     => LET req == calls[c].req[1]
                            want == DiffRequestFor(raw)
                        IN  /\ req.method = want.method
                            /\ req.path = want.path
                            /\ req.params["format"] = want.format
                            /\ req.params["word_diff"] = want.word_diff

\* get_diff was called with only a uuid and its request went out.
C12_Witness ==
    /\ calls["c1"].svc = "get_diff" /\ calls["c1"].nreq = 1
    /\ Validate("get_diff", [uuid |-> "u1"]) = Some(calls["c1"].data)
    /\ calls["c1"].req[1].path =
          <<"api", "v1", "watch", "u1", "difference", "previous", "latest">>
    /\ calls["c1"].req[1].params["format"] = "htmlcolor"
    /\ calls["c1"].req[1].params["word_diff"] = "false"
    /\ calls["c1"].result = Ok

\* The call data names a value outside the enumeration the claim gives for
\* its key.
OutsideEnumeration(svc, d) ==
    \/ /\ svc = "create_watch"
       /\ \/ "method" \in DOMAIN d /\ d["method"] \notin {"GET", "POST", "PUT", "DELETE"}
          \/ "fetch_backend" \in DOMAIN d
               /\ d["fetch_backend"] \notin {"html_requests", "html_webdriver"}
          \/ "processor" \in DOMAIN d
               /\ d["processor"] \notin {"text_json_diff", "restock_diff"}
    \/ /\ svc = "get_diff"
       /\ "format" \in DOMAIN d
       /\ d["format"] \notin {"text", "html", "htmlcolor", "markdown"}

\* C15: a call whose data is outside an enumeration sends no request and
\* asks for no refresh (the service is not written to, no fetch is started
\* for it); an accepted value goes out unchanged under the same name, in
\* the JSON body of create_watch and in the query of get_diff.
C15_InvalidPayloadNeverReachesClient ==
    \A c \in CallIds :
        LET call == calls[c]
        IN  call.pc # "idle"
            => /\ OutsideEnumeration(call.svc, call.data)
                    => /\ call.nreq = 0 /\ call.req = None
                       /\ call.log = <<>> /\ call.refresh = None
                       /\ server.ver = 0 /\ ~Fetching(coord)
               /\ (call.svc = "create_watch" /\ call.nreq = 1)
                    => \A k \in DOMAIN call.data \cap
                                {"method", "fetch_backend", "processor"} :
                          /\ k \in DOMAIN call.req[1].json
                          /\ call.req[1].json[k] = call.data[k]
               /\ (call.svc = "get_diff" /\ call.nreq = 1)
                    => call.req[1].params["format"] = call.data["format"]

\* create_watch was called with method PATCH and rejected.
C15_Witness ==
    /\ calls["c1"].svc = "create_watch"
    /\ calls["c1"].pc = "done"
    /\ "method" \in DOMAIN calls["c1"].data
    /\ calls["c1"].data["method"] = "PATCH"
    /\ calls["c1"].nreq = 0

ListedResource(p) ==
    \/ p \in {<<"watch">>, <<"tag">>, <<"notifications">>, <<"search">>,
              <<"import">>, <<"systeminfo">>}
    \/ Len(p) = 2 /\ p[1] \in {"watch", "tag"}
    \/ Len(p) \in {3, 4} /\ p[1] = "watch" /\ p[3] = "history"
    \/ Len(p) = 5 /\ p[1] = "watch" /\ p[3] = "difference"
    \/ Len(p) = 3 /\ p[1] = "watch" /\ p[3] = "favicon"

\* The request went to the base URL without its trailing slash, then
\* /api/v1, and carries the configured key as x-api-key.
TargetsApiWithKey ==
    /\ rq.url[1] = [origin |-> rq.base.origin, slashes |-> 0]
    /\ Len(rq.url) >= 4 /\ rq.url[2] = "api" /\ rq.url[3] = "v1"
    /\ "x-api-key" \in DOMAIN rq.hdrs
    /\ rq.hdrs["x-api-key"] = rq.key

\* C14 as claimed: every request of every client operation targets the
\* base URL, /api/v1 and one of the listed resources, with the configured
\* key in x-api-key.
C14_RequestsTargetListedResources ==
    rq.phase = "done"
        => /\ TargetsApiWithKey
           /\ ListedResource(SubSeq(rq.url, 4, Len(rq.url)))

\* C14 as amended: the same, with /tags (the listing of the tags) added to
\* the resources.
C14_RequestsTargetListedResourcesOrTags ==
    rq.phase = "done"
        => /\ TargetsApiWithKey
           /\ \/ ListedResource(SubSeq(rq.url, 4, Len(rq.url)))
              \/ /\ SubSeq(rq.url, 4, Len(rq.url)) = <<"tags">>
                 /\ rq.req = list_tags

\* The tags were listed through a client whose base URL ends in a slash.
C14_Witness ==
    /\ rq.phase = "done"
    /\ rq.req = list_tags
    /\ rq.base.slashes = 1
    /\ rq.url = <<[origin |-> rq.base.origin, slashes |-> 0], "api", "v1", "tags">>
    /\ rq.hdrs["x-api-key"] = "key-b"

\* The event the claim names for each of the four services.
DomainEvent(svc) ==
    CASE svc = "get_snapshot" -> "changedetection_snapshot_received"
      [] svc = "get_diff" -> "changedetection_diff_received"
      [] svc = "search" -> "changedetection_search_results"
      [] svc = "bulk_import" -> "changedetection_import_completed"

\* The result of the call's request that the event carries.
EventResult(svc, data) ==
    CASE svc \in {"get_snapshot", "get_diff"} -> data.content
      [] svc = "search" -> data.results
      [] svc = "bulk_import" -> data.imported_uuids

\* C16: get_snapshot, get_diff, search and bulk_import fire their event at
\* most once, none when the client request failed, exactly one when the
\* call returned, and the event carries the result of the call's own
\* request; bulk_import fires it only after its refresh returned; no other
\* service fires an event.
C16_EventOnceAfterSuccess ==
    \A c \in CallIds :
        LET call == calls[c]
            evsvc == call.svc \in {"get_snapshot", "get_diff", "search", "bulk_import"}
        IN  call.pc # "idle"
            => /\ Len(call.events) <= 1
               /\ ~evsvc => call.events = <<>>
               /\ call.raised # "none" => call.events = <<>>
               /\ (evsvc /\ call.pc = "done" /\ call.result = Ok)
                     => Len(call.events) = 1
               /\ (evsvc /\ call.events # <<>>)
                     => /\ call.events[1].type = DomainEvent(call.svc)
                        /\ call.nreq = 1 /\ call.raised = "none"
                        /\ EventResult(call.svc, call.events[1].data) # None
                        /\ EventResult(call.svc, call.events[1].data)[1].of = call.req[1]
               /\ (call.svc = "bulk_import" /\ call.events # <<>>)
                     => /\ call.refresh # None
                        /\ call.log = <<"request", "refresh",
                                        "changedetection_import_completed">>

\* bulk_import has fired its event after its refresh.
C16_Witness ==
    /\ calls["c1"].svc = "bulk_import"
    /\ calls["c1"].pc = "done"
    /\ Len(calls["c1"].events) = 1
    /\ calls["c1"].refresh # None

SetUpAndNotUnloaded(e) == entry[e].state \in {"forwarding", "loaded", "failed_unload"}

UnloadSucceeds(e) == entry[e].state = "loaded" /\ entry'[e].state = "not_loaded"
UnloadFails(e) == entry[e].state = "loaded" /\ entry'[e].state = "failed_unload"

\* C18: the store holds the handles of exactly the entries whose setup
\* passed its first successful poll and that were not successfully
\* unloaded since, each under its own id; a successful unload removes that
\* entry's handles and no others, a failed unload removes nothing.
C18_StoreHoldsSetUpEntries ==
    /\ [](\A e \in EntryIds :
            /\ e \in DOMAIN hass.data <=> SetUpAndNotUnloaded(e)
            /\ e \in DOMAIN hass.data
                  => hass.data[e] = [client |-> e, coordinator |-> e])
    /\ [][\A e \in EntryIds :
            /\ UnloadSucceeds(e) => hass'.data = Without(hass.data, e)
            /\ UnloadFails(e) => hass'.data = hass.data]_vars

\* e1 was set up and successfully unloaded while e2's handles stay stored,
\* and e2's unload has failed.
C18_Witness ==
    /\ entry["e1"].state = "not_loaded" /\ coord["e1"].data # None
    /\ DOMAIN hass.data = {"e2"}
    /\ entry["e2"].state = "failed_unload"

\* A step in which a service call starts, and one in which a handler asks
\* for its refresh.
CallStarts(c) == calls[c].pc = "idle" /\ calls'[c].pc # "idle"
RefreshStarts(c) == calls[c].pc = "refresh" /\ calls'[c].pc = "waiting"

\* C19: every service is bound to the entry whose setup completed most
\* recently; a call sends its request through that entry's client (only
\* that entry's server sees it) and refreshes that entry's coordinator
\* only; an unload neither unregisters nor rebinds a service.
C19_ServicesBoundToLastSetup ==
    /\ [](/\ hist.last # "" => DOMAIN hass.services = Services
          /\ \A svc \in DOMAIN hass.services : hass.services[svc] = hist.last)
    /\ [][\A c \in CallIds :
            /\ CallStarts(c)
                  => /\ calls'[c].client = hist.last
                     /\ \A e \in EntryIds \ {hist.last} : server'[e] = server[e]
            /\ RefreshStarts(c)
                  => /\ Fetching(coord'[calls[c].client])
                     /\ \A e \in EntryIds \ {calls[c].client} : coord'[e] = coord[e]]_vars
    /\ [][\A e \in EntryIds :
            (UnloadSucceeds(e) \/ UnloadFails(e))
                => hass'.services = hass.services]_vars

\* e1 was set up, then e2; e2 was unloaded; a call made after that went
\* through e2's client and has been refreshed by e2's coordinator.
C19_Witness ==
    /\ hist.last = "e2"
    /\ entry["e1"].state = "loaded"
    /\ entry["e2"].state = "not_loaded"
    /\ calls["c1"].pc = "done" /\ calls["c1"].client = "e2"
    /\ ~calls["c1"].stored
    /\ calls["c1"].wrote
    /\ calls["c1"].refresh # None /\ calls["c1"].refresh[1].ok
    /\ server["e2"].ver = 1 /\ server["e1"].ver = 0


\* The counters of the systeminfo part agree with the watches and tags parts
\* of the same snapshot, as they do in every single state of the service.
SnapshotAgrees(snap) ==
    /\ snap["systeminfo"][1].body.watch_count
         = Cardinality(DOMAIN snap["watches"][1].body)
    /\ snap["systeminfo"][1].body.tag_count
         = Cardinality(DOMAIN snap["tags"][1].body)

\* C20: every stored snapshot is the state of the service at one instant of
\* the poll that read it, whatever is written between the four requests of
\* that poll; in particular systeminfo.watch_count is the number of watches
\* of the same snapshot.
C20_SnapshotOfOneInstant ==
    coord.data # None => SnapshotAgrees(Snapshot)


\* The watches of the stored snapshot.
SnapshotWatches == DOMAIN Snapshot["watches"][1].body

\* The sensor of a watch reports no state and the default attributes.
ReportsDefaults(u) ==
    /\ native_value(WatchData(coord, u)) = None
    /\ extra_state_attributes(u, WatchData(coord, u))
         = [uuid |-> u, paused |-> FALSE, notification_muted |-> FALSE,
            tags |-> <<>>]

\* C21: the watch sensors and recheck buttons of an entry are those of the
\* watches of the snapshot its setup read, and no later step adds or removes
\* one; the sensor of a watch that is missing from the current snapshot
\* reports state None, paused false, notification_muted false and no tags.
C21_EntitiesFixedAtSetup ==
    /\ [](entry.state = "loaded"
            => \A u \in entry.sensors \ SnapshotWatches : ReportsDefaults(u))
    /\ [][(entry.state = "refreshed" /\ entry'.state = "loaded")
            => /\ entry'.sensors = SnapshotWatches
               /\ entry'.buttons = SnapshotWatches]_vars
    /\ [][entry.state = "loaded"
            => /\ entry'.sensors = entry.sensors
               /\ entry'.buttons = entry.buttons]_vars

\* The watch the entry was set up with has been deleted and a later poll has
\* stored a snapshot without it, which holds a watch created after the
\* setup: the first still has its sensor, the second has none.
C21_Witness ==
    /\ entry.state = "loaded"
    /\ "u1" \in entry.sensors \ SnapshotWatches
    /\ \E u \in SnapshotWatches : u \notin entry.sensors


\* A step in which the submitted form is answered.
FlowAnswers == rq.phase = "probing" /\ rq'.phase # "probing"

\* The probe failed with a non-2xx response, a transport error or a timeout.
ProbeFailed(ex) ==
    \/ ex.kind \in {"ClientError", "TimeoutError"}
    \/ ex.kind = "response" /\ ~Is2xx(ex.status)

\* C22: the flow creates an entry only after the systeminfo probe succeeded
\* and never for a base URL that is already configured; a probe that fails
\* with a non-2xx response, a transport error or a timeout shows the form
\* again with the error "cannot_connect" and creates no entry, and "unknown"
\* is reported only for other failures.
C22_EntryOnlyAfterProbe ==
    [][FlowAnswers =>
         /\ hass'.config_entries # hass.config_entries
              => /\ ~ProbeFailed(rq.ex)
                 /\ rq.user_input.base_url \notin DOMAIN hass.config_entries
         /\ ProbeFailed(rq.ex)
              => /\ rq'.phase = "form"
                 /\ rq'.errors = "cannot_connect"
                 /\ hass'.config_entries = hass.config_entries
         /\ rq'.errors = "unknown" => ~ProbeFailed(rq.ex)]_vars

====
